---- MODULE Spec2Model ----
(***************************************************************************)
(* Particle field of sketch-03: the render callback of the two variants    *)
(* (src/sketch-03.js, the plain variant with a fixed lifespan and steered  *)
(* motion; src/unnamed/part_000, the MIDI variant with per-particle        *)
(* lifespans and note events), and the Web MIDI callbacks of the latter.   *)
(*                                                                         *)
(* Numbers.  Positions and velocities are fixed point, one unit being      *)
(* 0.005 px (the jitter amplitude of Point.update), so that every literal  *)
(* of the code is a whole number of units.  Ages and lifespans are IEEE    *)
(* doubles: the age is accumulated by repeated addition of 1/fps and the   *)
(* rounding of that sum decides the frame on which a particle expires.  A  *)
(* double is kept as three limbs <<hi, mid, lo>> of 22 bits, an integer    *)
(* count of 2^-58 s, and is always rounded to 53 significant bits.         *)
(***************************************************************************)
EXTENDS Integers, Sequences, FiniteSets, TLC

VARIABLES
    variant,     \* "plain" (sketch-03.js) or "midi" (part_000)
    midiAccess,  \* the requestMIDIAccess promise: none/unsupported/pending/granted/denied
    midiOutput,  \* 0 = undefined, k > 0 = the k-th output of the MIDIAccess
    points,      \* the array `points`, a sequence of Point records
    frame,       \* number of render calls so far (bounds the exploration)
    startLen,    \* observation: points.length when the last render call started
    afterTopUp,  \* observation: points.length right after the top-up loop
    passIds,     \* observation: ids of the array when the update pass started
    visits,      \* observation: id -> number of callback invocations in the last pass
    removed,     \* observation: particles spliced out by the last pass, as they were
    sent,        \* observation: events handed to midiOutput.send by the last pass
    noteOn,      \* observation: id -> note number of the particle's note-on, 0 if none
    onCount,     \* observation: id -> number of note-ons sent for the particle
    offCount,    \* observation: id -> number of note-offs sent for the particle
    snap,        \* observation: positions of the array during the connection pass
    threshold,   \* observation: dynamicThreshold of the last render call
    examined,    \* observation: index pairs <<i, j>> visited by the connection pass
    lines        \* observation: the line segments stroked by the connection pass

vars == <<variant, midiAccess, midiOutput, points, frame, startLen, afterTopUp,
          passIds, visits, removed, sent, noteOn, onCount, offCount, snap,
          threshold, examined, lines>>

----------------------------------------------------------------------------
(* Bounds of the exploration.                                              *)

\* Stands for INITIAL_POINTS (200 / 300), scaled down.
INITIAL_POINTS == 2
\* Stands for MIN_ACTIVE_POINTS (150), scaled down; stays below INITIAL_POINTS.
MIN_ACTIVE_POINTS == 1
\* Largest array explored: the probabilistic spawn is not taken beyond it.
MaxPoints == 3
\* Render calls explored by Spec.
MaxFrames == 6
\* Render calls explored by SpecDrift (moving particles).
DriftFrames == 4
\* Render calls explored by SpecReal (lifespan 60 s at 60 fps).
RealFrames == 3700
\* Scaled lifespans, in 1/64 s: the shortest and the longest drawn.
LifespanMin64 == 2
LifespanMax64 == 3
\* Outputs a granted MIDIAccess may list (0 .. MaxOutputs).
MaxOutputs == 1

----------------------------------------------------------------------------
(* Program constants.                                                      *)

fps == 60
POINT_LIFESPAN_MIN == 60
NOTE_MIN == 36
NOTE_MAX == 72
VELOCITY_MIN == 40
VELOCITY_MAX == 100
NOTE_ON == 144
NOTE_OFF == 128

\* Units per pixel: one unit is 0.005 px.
PX == 1000 \div 5
dimensions == <<1080, 1350>>
width == dimensions[1] * PX
height == dimensions[2] * PX

----------------------------------------------------------------------------
(* IEEE doubles in [0, 256), as three 22-bit limbs counting 2^-58.         *)

B == 2^22

Zero == <<0, 0, 0>>

\* k seconds, k a small natural number.
Seconds(k) == <<k * 2^14, 0, 0>>

\* k/64 seconds.
SixtyFourths(k) == <<k * 2^8, 0, 0>>

\* Number of significant bits of a limb.
BitLen(h) == IF h = 0 THEN 0 ELSE CHOOSE b \in 1..23 : 2^(b-1) <= h /\ h < 2^b

\* Propagate carries out of the low and the middle limb.
Carry(s) ==
    LET mid0 == s[2] + (s[3] \div B)
    IN  <<s[1] + (mid0 \div B), mid0 % B, s[3] % B>>

\* The one element of a one-element set: Only({F(x) : x \in {e}}) is F(e)
\* with e evaluated once.
Only(S) == CHOOSE e \in S : TRUE

\* Round the exact sum s to a multiple of p = 2^q, ties to even; r is the
\* part of s below p.
RoundLow(s, p, r) ==
    Carry(<<s[1], s[2],
            (s[3] - r) + (IF r > p \div 2 \/ (r = p \div 2 /\ (s[3] \div p) % 2 = 1)
                          THEN p ELSE 0)>>)

\* Round the exact sum s, which has 53 + q significant bits.
RoundAt(s, q) == IF q = 0 THEN s ELSE RoundLow(s, 2^q, s[3] % (2^q))

\* Round an exact sum to 53 significant bits, ties to even.
RoundToDouble(s) ==
    Only({RoundAt(s, q) : q \in {IF s[1] < 2^9 THEN 0 ELSE BitLen(s[1]) - 9}})

\* The double a + b.
FAdd(a, b) ==
    Only({RoundToDouble(s) : s \in {Carry(<<a[1] + b[1], a[2] + b[2], a[3] + b[3]>>)}})

\* a >= b.
FGe(a, b) ==
    \/ a[1] > b[1]
    \/ a[1] = b[1] /\ a[2] > b[2]
    \/ a[1] = b[1] /\ a[2] = b[2] /\ a[3] >= b[3]

\* The double 1 / d for 32 < d <= 64: 2^58 / d has exactly 53 bits before
\* rounding; long division limb by limb, then round to nearest.
OneOver(d) ==
    LET top == 2^14
        q1  == top \div d
        r1  == top % d
        q2  == (r1 * B) \div d
        r2  == (r1 * B) % d
        q3  == (r2 * B) \div d
        r3  == (r2 * B) % d
        up  == 2 * r3 > d \/ (2 * r3 = d /\ q3 % 2 = 1)
    IN  Carry(<<q1, q2, q3 + (IF up THEN 1 ELSE 0)>>)

----------------------------------------------------------------------------
(* Small helpers.                                                          *)

Abs(a) == IF a < 0 THEN -a ELSE a
Max(a, b) == IF a >= b THEN a ELSE b

Ids == 1..MaxPoints

IdsOf(pts) == {pts[i].id : i \in 1..Len(pts)}

\* Array.prototype.splice(index, 1).
Splice(pts, k) == [i \in 1..(Len(pts) - 1) |-> IF i < k THEN pts[i] ELSE pts[i + 1]]

\* Identity of the next object created: the least identity not in the array.
FreshId(pts) == CHOOSE i \in Ids : i \notin IdsOf(pts) /\ \A j \in Ids : j < i => j \in IdsOf(pts)

----------------------------------------------------------------------------
(* Inputs: what the random source, the clock and the browser deliver.      *)

\* The plain variant's fixed lifespan (120 s in the source), scaled.
POINT_LIFESPAN == SixtyFourths(LifespanMin64)

LifespanInputs == {SixtyFourths(k) : k \in LifespanMin64..LifespanMax64}

Mid == <<(width \div 2), (height \div 2)>>

\* random.range(0, width), random.range(0, height), the two random.range(-0.2, 0.2)
\* of the constructor, and the lifespan drawn by the MIDI variant's constructor.
\*  - just below the note boundary at 15 px, drifting right and up over the top edge
\*  - near the left edge, drifting left over it, and down over the bottom edge
\*  - two resting particles 100 px apart (60, 80), one of them drawn twice
EdgeInputs ==
    { [x |-> 15 * PX - 60, y |-> 60, vx |-> PX \div 5, vy |-> -(PX \div 5)],
      [x |-> 60, y |-> height - PX \div 5, vx |-> -(PX \div 5), vy |-> PX \div 5] }

RestInputs ==
    { [x |-> Mid[1], y |-> Mid[2], vx |-> 0, vy |-> 0],
      [x |-> Mid[1] + 60 * PX, y |-> Mid[2] + 80 * PX, vx |-> 0, vy |-> 0] }

WithLifespan(in, l) == [x |-> in.x, y |-> in.y, vx |-> in.vx, vy |-> in.vy, lifespan |-> l]

SpawnInputs ==
    {WithLifespan(in, SixtyFourths(LifespanMin64)) : in \in EdgeInputs \cup RestInputs}

\* A particle resting at the centre.
AtRest == [x |-> Mid[1], y |-> Mid[2], vx |-> 0, vy |-> 0]

\* Resting particles only: the array then moves through finitely many states.
StillInputs == {WithLifespan(AtRest, l) : l \in LifespanInputs}

\* The scenario of a particle whose lifespan is drawn as exactly 60 s.
RealInputs == {WithLifespan(AtRest, Seconds(POINT_LIFESPAN_MIN))}

\* Math.sin(time * 0.5), sampled at its extremes and its zero.
SinInputs == {-1, 0, 1}

\* Math.sin(..), Math.cos(..) of Point.update and its two jitters (in units),
\* one sample per render call.
NoSteer == [s |-> 0, c |-> 0, jx |-> 0, jy |-> 0]
SteerInputs == {NoSteer, [s |-> 1, c |-> -1, jx |-> 1, jy |-> -1]}

----------------------------------------------------------------------------
(* Point and Vector.                                                       *)

\* new Point(x, y): age 0; n counts the age increments (an observation).
NewPoint(in, id) ==
    [id |-> id, x |-> in.x, y |-> in.y, vx |-> in.vx, vy |-> in.vy,
     age |-> Zero, n |-> 0,
     lifespan |-> IF variant = "midi" THEN in.lifespan ELSE POINT_LIFESPAN]

\* Least r with r * r >= n, for n up to 2 * Far^2.
RECURSIVE SqrtUp(_, _, _)
SqrtUp(n, lo, hi) ==
    IF lo >= hi THEN lo
    ELSE Only({IF m * m >= n THEN SqrtUp(n, lo, m) ELSE SqrtUp(n, m + 1, hi) :
                 m \in {(lo + hi) \div 2}})

\* Beyond Far on an axis a pair is further apart than any threshold.
Far == 160 * PX

\* Vector.getDistance, rounded up to a whole unit (so that comparing it with a
\* whole threshold is exact); for a pair more than Far apart on an axis, the
\* larger axis distance, which is a lower bound above every threshold.
getDistance(p, q) ==
    LET dx == Abs(p.x - q.x)
        dy == Abs(p.y - q.y)
    IN  IF dx > Far \/ dy > Far THEN Max(dx, dy)
        ELSE Only({SqrtUp(n, 0, 2 * Far) : n \in {dx * dx + dy * dy}})

\* The wraparound at the end of Point.update (both variants).
WrapNever(v, limit) == v
Wrap(v, limit) ==
    LET v1 == IF v < 0 THEN limit ELSE v
    IN  IF v1 > limit THEN 0 ELSE v1

\* Point.update of the MIDI variant: drift and wraparound.
UpdateMidi(p) ==
    [p EXCEPT !.x = Wrap(p.x + p.vx, width), !.y = Wrap(p.y + p.vy, height)]

\* math.clamp(value, min, max) of canvas-sketch-util.
clamp(v, lo, hi) == IF v < lo THEN lo ELSE IF v > hi THEN hi ELSE v

\* Point.applyBoundaries: the new velocity.
applyBoundaries(p) ==
    LET margin == 100 * PX
        push   == PX \div 100
        vx1 == IF p.x < margin THEN p.vx + push ELSE p.vx
        vx2 == IF p.x > width - margin THEN vx1 - push ELSE vx1
        vy1 == IF p.y < margin THEN p.vy + push ELSE p.vy
        vy2 == IF p.y > height - margin THEN vy1 - push ELSE vy1
    IN  [p EXCEPT !.vx = vx2, !.vy = vy2]

\* Point.update of the plain variant: boundary push, steering, jitter, drift,
\* speed limit, wraparound.
UpdatePlain(p0, steer) ==
    LET p  == applyBoundaries(p0)
        gain == (2 * PX) \div 100
        speedLimit == (2 * PX) \div 5
        vx == p.vx + steer.s * gain + steer.jx
        vy == p.vy + steer.c * gain + steer.jy
    IN  [p EXCEPT !.x = Wrap(p.x + vx, width), !.y = Wrap(p.y + vy, height),
                  !.vx = clamp(vx, -speedLimit, speedLimit),
                  !.vy = clamp(vy, -speedLimit, speedLimit)]

\* 1 / settings.fps, in seconds.
AgeStepFrames == Seconds(1)
AgeStep == OneOver(fps)

\* point.age += 1 / settings.fps.  Once the age has reached the lifespan its
\* value decides no branch any more and it is left where it is, so that a
\* particle the code never removes has finitely many states.
AgeIncrementTwice(p) ==
    [p EXCEPT !.age = FAdd(FAdd(p.age, AgeStep), AgeStep), !.n = p.n + 1]
AgeIncrement(p) ==
    IF FGe(p.age, p.lifespan) THEN p
    ELSE [p EXCEPT !.age = FAdd(p.age, AgeStep), !.n = p.n + 1]

\* The helper mapRange of the MIDI variant, on whole units: Math.round of
\* (value - inMin) * (outMax - outMin) / (inMax - inMin) + outMin.
mapRange(value, inMin, inMax, outMin, outMax) ==
    LET num == (value - inMin) * (outMax - outMin)
        den == inMax - inMin
    IN  ((2 * num + den) \div (2 * den)) + outMin

\* math.mapRange of canvas-sketch-util (no rounding, no clamping), on whole
\* units: the product is taken first so that the division is the only rounding.
math_mapRange(value, inMin, inMax, outMin, outMax) ==
    (((value - inMin) * (outMax - outMin)) \div (inMax - inMin)) + outMin

\* dynamicThreshold, from the sample of Math.sin(time * 0.5).
dynamicThreshold(sinT) == math_mapRange(sinT, -1, 1, 100 * PX, 150 * PX)

----------------------------------------------------------------------------
(* The render callback.  An intermediate value that is used more than      *)
(* once is bound with Only, which evaluates it once.                       *)

\* while (points.length < MIN_ACTIVE_POINTS) points.push(new Point(..)):
\* consumes the random tape; yields <<array, rest of the tape>>.
RECURSIVE TopUp(_, _)
TopUpShort(pts, tape) ==
    IF Len(pts) < MIN_ACTIVE_POINTS - 1
    THEN TopUp(Append(pts, NewPoint(Head(tape), FreshId(pts))), Tail(tape))
    ELSE <<pts, tape>>
TopUp(pts, tape) ==
    IF Len(pts) < MIN_ACTIVE_POINTS
    THEN TopUp(Append(pts, NewPoint(Head(tape), FreshId(pts))), Tail(tape))
    ELSE <<pts, tape>>

\* if (random.chance(..)) points.push(new Point(..)).
ChanceSpawn(pts, chance, tape) ==
    IF chance THEN Append(pts, NewPoint(Head(tape), FreshId(pts))) ELSE pts

\* Whether the connection pass skips the pair: if (dist > dynamicThreshold) continue.
TooFarOrAt(dist, thr) == dist >= thr
TooFar(dist, thr) == dist > thr

\* The stroke of a pair at distance dist: alpha and lineWidth, in thousandths.
Stroke(i, j, dist, thr) ==
    [i |-> i, j |-> j,
     alpha |-> math_mapRange(dist, 0, thr, 600, 0),
     lineWidth |-> math_mapRange(dist, 0, thr, 1500, 500)]

\* The body of the inner loop for the pair (i, j) at distance dist; acc is
\* <<examined, lines>>.
Connect(i, j, dist, thr, acc) ==
    IF TooFar(dist, thr) THEN <<Append(acc[1], <<i, j>>), acc[2]>>
    ELSE <<Append(acc[1], <<i, j>>), Append(acc[2], Stroke(i, j, dist, thr))>>

\* for (let j = i + 1; j < points.length; j++), from j on.
RECURSIVE InnerLoop(_, _, _, _, _)
InnerLoop(pts, thr, i, j, acc) ==
    IF j > Len(pts) THEN acc
    ELSE InnerLoop(pts, thr, i, j + 1,
                   Only({Connect(i, j, getDistance(pts[i], pts[j]), thr, a) : a \in {acc}}))

\* The first j of the inner loop.
InnerStart(i) == i + 1

\* for (let i = 0; i < points.length; i++), from i on.
RECURSIVE OuterLoop(_, _, _, _)
OuterLoop(pts, thr, i, acc) ==
    IF i > Len(pts) THEN acc
    ELSE OuterLoop(pts, thr, i + 1, InnerLoop(pts, thr, i, InnerStart(i), acc))

\* Whether the callback's removal branch is taken for the aged point p.
ExpiredPlain(p) == FGe(p.age, POINT_LIFESPAN)
ExpiredMidi(p) == FGe(p.age, p.lifespan) /\ midiOutput # 0

\* The note number and the velocity of a point.
MidiNote(p) == mapRange(p.x, 0, width, NOTE_MIN, NOTE_MAX)
Velocity(p) == mapRange(p.y, 0, height, VELOCITY_MIN, VELOCITY_MAX)

\* Observation: the callback has been invoked for the particle id.
Visit(st, id) == [st EXCEPT !.visits[id] = @ + 1]

\* points.splice(index, 1) in the callback, p being the point removed.
Remove(st, k, p) == [st EXCEPT !.pts = Splice(st.pts, k), !.removed = Append(@, p)]

\* The end of the plain callback: p is the updated and aged point.
FinishPlain(st, k, p) ==
    IF ExpiredPlain(p) THEN Remove(st, k, p) ELSE [st EXCEPT !.pts[k] = p]

\* The forEach callback of the plain variant at index k (1-based); st is the
\* array with the observations of the pass.
CallbackPlain(st, k, steer) ==
    Only({FinishPlain(Visit(st, p.id), k, p) :
            p \in {AgeIncrement(UpdatePlain(st.pts[k], steer))}})

\* if (point.age === 0 && midiOutput) midiOutput.send([144, midiNote, velocity]).
SendOn(st, p, note, velocity) ==
    IF p.age = Zero /\ midiOutput # 0
    THEN [st EXCEPT
            !.sent = Append(@, [status |-> NOTE_ON, note |-> note,
                                velocity |-> velocity, id |-> p.id]),
            !.noteOn[p.id] = note,
            !.onCount[p.id] = @ + 1]
    ELSE st

\* midiOutput.send([128, midiNote, 0]).
SendOff(st, p, note) ==
    [st EXCEPT !.sent = Append(@, [status |-> NOTE_OFF, note |-> note,
                                   velocity |-> 0, id |-> p.id]),
               !.offCount[p.id] = @ + 1]

\* The end of the MIDI callback: p is the updated and aged point, note the
\* midiNote computed after the update.
FinishMidi(st, k, p, note) ==
    IF ExpiredMidi(p) THEN Remove(SendOff(st, p, note), k, p)
    ELSE [st EXCEPT !.pts[k] = p]

\* The MIDI callback once the point has been updated to p.
MappedMidi(st, k, p) ==
    Only({FinishMidi(SendOn(st, p, MidiNote(p), Velocity(p)), k, aged, MidiNote(p)) :
            aged \in {AgeIncrement(p)}})

\* The forEach callback of the MIDI variant at index k (1-based).
CallbackMidi(st, k) ==
    Only({MappedMidi(Visit(st, p.id), k, p) : p \in {UpdateMidi(st.pts[k])}})

\* Array.prototype.forEach: the length is read once; an index that is no
\* longer in the array when its turn comes is passed over (Invoke is the
\* turn of index k, ForEach the loop from k on).
Invoke(st, k, steer) ==
    IF k > Len(st.pts) THEN st
    ELSE IF variant = "midi" THEN CallbackMidi(st, k)
    ELSE CallbackPlain(st, k, steer)

RECURSIVE ForEach(_, _, _, _)
ForEach(k, len, st, steer) ==
    IF k > len THEN st
    ELSE ForEach(k + 1, len, Only({Invoke(s, k, steer) : s \in {st}}), steer)

\* Number of constructor calls of the top-up loop.
Needed(pts) == Max(0, MIN_ACTIVE_POINTS - Len(pts))

\* The array and the observations when the update pass starts; new holds the
\* identities created by this call.
StartOfPass(pts, new) ==
    [pts |-> pts,
     visits |-> [i \in Ids |-> 0],
     removed |-> <<>>,
     sent |-> <<>>,
     noteOn |-> [i \in Ids |-> IF i \in new THEN 0 ELSE noteOn[i]],
     onCount |-> [i \in Ids |-> IF i \in new THEN 0 ELSE onCount[i]],
     offCount |-> [i \in Ids |-> IF i \in new THEN 0 ELSE offCount[i]]]

\* The state left by a render call: topped is the length after the top-up
\* loop, pts the array after the spawns, conn the outcome of the connection
\* pass and st the outcome of the update pass.
Commit(topped, pts, thr, conn, st) ==
    /\ points' = st.pts
    /\ startLen' = Len(points)
    /\ afterTopUp' = topped
    /\ passIds' = [i \in 1..Len(pts) |-> pts[i].id]
    /\ visits' = st.visits
    /\ removed' = st.removed
    /\ sent' = st.sent
    /\ noteOn' = st.noteOn
    /\ onCount' = st.onCount
    /\ offCount' = st.offCount
    /\ snap' = [i \in 1..Len(pts) |-> <<pts[i].x, pts[i].y>>]
    /\ threshold' = thr
    /\ examined' = conn[1]
    /\ lines' = conn[2]

\* The connection pass and the update pass over the array pts.
Passes(topped, pts, thr, steer) ==
    \E conn \in {OuterLoop(pts, thr, 1, <<<<>>, <<>>>>)} :
      \E st \in {ForEach(1, Len(pts), StartOfPass(pts, IdsOf(pts) \ IdsOf(points)), steer)} :
        Commit(topped, pts, thr, conn, st)

\* The spawns, top being the outcome of the top-up loop.
Spawned(top, chance, thr, steer) ==
    \E pts \in {ChanceSpawn(top[1], chance, top[2])} :
      Passes(Len(top[1]), pts, thr, steer)

\* One call of the render callback, with what the random source (tape,
\* chance, steer) and the clock (sinT) deliver.
Render(tape, chance, sinT, steer) ==
    \E top \in {TopUp(points, tape)} :
      Spawned(top, chance, dynamicThreshold(sinT), steer)

\* random.chance: the spawn is explored only while the array has room.
ChanceInputs == IF Max(Len(points), MIN_ACTIVE_POINTS) < MaxPoints THEN BOOLEAN ELSE {FALSE}

RenderWith(inputs, chances, sines, steers) ==
    \E chance \in chances :
      \E tape \in [1..(Needed(points) + (IF chance THEN 1 ELSE 0)) -> inputs] :
        \E sinT \in sines :
          \E steer \in (IF variant = "plain" THEN steers ELSE {NoSteer}) :
            Render(tape, chance, sinT, steer)

\* The render callback, called by the animation loop; resting particles.
Frame ==
    /\ frame < MaxFrames
    /\ RenderWith(StillInputs, ChanceInputs, {0}, {NoSteer})
    /\ frame' = frame + 1
    /\ UNCHANGED <<variant, midiAccess, midiOutput>>

\* The render callback; moving particles, steered in the plain variant, no
\* probabilistic spawn.
FrameDrift ==
    /\ frame < DriftFrames
    /\ RenderWith(SpawnInputs, {FALSE}, SinInputs, SteerInputs)
    /\ frame' = frame + 1
    /\ UNCHANGED <<variant, midiAccess, midiOutput>>

\* The render callback; lifespans of exactly 60 s, no probabilistic spawn.
FrameReal ==
    /\ frame < RealFrames
    /\ RenderWith(RealInputs, {FALSE}, {0}, {NoSteer})
    /\ frame' = frame + 1
    /\ UNCHANGED <<variant, midiAccess, midiOutput>>

\* The render callback, called for ever: of the frame count only the
\* parity is kept.
FrameFair ==
    /\ RenderWith(StillInputs, ChanceInputs, {0}, {NoSteer})
    /\ frame' = (frame + 1) % 2
    /\ UNCHANGED <<variant, midiAccess, midiOutput>>

----------------------------------------------------------------------------
(* Web MIDI (MIDI variant).                                                *)

\* The output left in midiOutput by the loop over n outputs: each is
\* assigned in turn, so the last one stays; none leaves it undefined.
SelectedOutput(n) == n

\* onMIDISuccess.
onMIDISuccess ==
    /\ variant = "midi"
    /\ midiAccess = "pending"
    /\ \E outputs \in 0..MaxOutputs :
         /\ midiAccess' = "granted"
         /\ midiOutput' = SelectedOutput(outputs)
    /\ UNCHANGED <<variant, points, frame, startLen, afterTopUp, passIds, visits,
                   removed, sent, noteOn, onCount, offCount, snap, threshold,
                   examined, lines>>

\* onMIDIFailure: logs only.
onMIDIFailure ==
    /\ variant = "midi"
    /\ midiAccess = "pending"
    /\ midiAccess' = "denied"
    /\ UNCHANGED <<variant, midiOutput, points, frame, startLen, afterTopUp, passIds,
                   visits, removed, sent, noteOn, onCount, offCount, snap, threshold,
                   examined, lines>>

----------------------------------------------------------------------------
(* Specifications.                                                         *)

\* The array built by sketch(): INITIAL_POINTS constructor calls.
RECURSIVE InitialPoints(_, _)
InitialPoints(pts, tape) ==
    IF Len(tape) = 0 THEN pts
    ELSE InitialPoints(Append(pts, NewPoint(Head(tape), Len(pts) + 1)), Tail(tape))

\* The state when sketch() has returned: the promise of requestMIDIAccess is
\* pending, or the browser has no Web MIDI at all.
InitWith(inputs, variants) ==
    /\ variant \in variants
    /\ midiAccess \in (IF variant = "midi" THEN {"pending", "unsupported"} ELSE {"none"})
    /\ midiOutput = 0
    /\ \E tape \in [1..INITIAL_POINTS -> inputs] : points = InitialPoints(<<>>, tape)
    /\ frame = 0
    /\ startLen = 0
    /\ afterTopUp = 0
    /\ passIds = <<>>
    /\ visits = [i \in Ids |-> 0]
    /\ removed = <<>>
    /\ sent = <<>>
    /\ noteOn = [i \in Ids |-> 0]
    /\ onCount = [i \in Ids |-> 0]
    /\ offCount = [i \in Ids |-> 0]
    /\ snap = <<>>
    /\ threshold = 0
    /\ examined = <<>>
    /\ lines = <<>>

\* Lifecycle of resting particles, both variants.
Init == InitWith(StillInputs, {"plain", "midi"})
Next == Frame \/ onMIDISuccess \/ onMIDIFailure
Spec == Init /\ [][Next]_vars

\* Moving particles, both variants.
InitDrift == InitWith(SpawnInputs, {"plain", "midi"})
NextDrift == FrameDrift \/ onMIDISuccess \/ onMIDIFailure
SpecDrift == InitDrift /\ [][NextDrift]_vars

\* Lifespan 60 s at 60 fps in the MIDI variant; the promise of
\* requestMIDIAccess settles before the first frame or never.
InitReal == InitWith(RealInputs, {"midi"})
NextReal == FrameReal \/ (frame = 0 /\ onMIDISuccess) \/ (frame = 0 /\ onMIDIFailure)
SpecReal == InitReal /\ [][NextReal]_vars

\* Frames keep being invoked; nothing obliges the promise to settle.
NextFair == FrameFair \/ onMIDISuccess \/ onMIDIFailure
FairSpec == Init /\ [][NextFair]_vars /\ WF_vars(FrameFair)

----------------------------------------------------------------------------
(* Properties.                                                             *)

InArray(id) == \E i \in 1..Len(points) : points[i].id = id

Indices == 1..Len(points)

Events == {sent[k] : k \in 1..Len(sent)}

Removed == {removed[k] : k \in 1..Len(removed)}

Expired(p) == FGe(p.age, p.lifespan)

\* C1: in every render call the array holds at least MIN_ACTIVE_POINTS
\* particles right after the top-up loop, and so do the connection pass and
\* the update pass when they start.
C1_FloorAfterTopUp ==
    frame > 0 =>
        /\ afterTopUp >= MIN_ACTIVE_POINTS
        /\ Len(snap) >= MIN_ACTIVE_POINTS
        /\ Len(passIds) >= MIN_ACTIVE_POINTS

\* A render call that found the array below the floor and topped it up.
C1_Witness ==
    frame > 0 /\ startLen < MIN_ACTIVE_POINTS /\ afterTopUp = MIN_ACTIVE_POINTS

\* C2: a particle is removed by a render call if and only if its age has
\* reached its lifespan at the end of that call: no particle left in the
\* array has age >= lifespan, and every particle removed had.
C2_RemovedIffExpired ==
    /\ \A i \in Indices : ~Expired(points[i])
    /\ \A r \in Removed : Expired(r)

\* C3: the update pass invokes the callback exactly once for every particle
\* that was in the array when the pass started.
C3_EachProcessedOnce ==
    frame > 0 => \A i \in 1..Len(passIds) : visits[passIds[i]] = 1

\* C4: with a sink, a particle gets at most one note-on and at most one
\* note-off, and its note-off carries the note number of its note-on.
C4_NoteOffMatchesNoteOn ==
    /\ \A id \in Ids : onCount[id] <= 1 /\ offCount[id] <= 1
    /\ \A e \in Events :
         (e.status = NOTE_OFF /\ onCount[e.id] > 0) => e.note = noteOn[e.id]

\* C5: in the MIDI variant every position in the array lies in
\* [0, width] x [0, height], every event sent is a note-on [144, note,
\* velocity] with note in 36..72 and velocity in 40..100 or a note-off
\* [128, note, 0] with note in 36..72, and the ends of the ranges map to the
\* ends: x = 0 to 36, x = width to 72, y = 0 to 40, y = height to 100.
C5_EventsInRange ==
    variant = "midi" =>
        /\ \A i \in Indices :
             /\ 0 <= points[i].x /\ points[i].x <= width
             /\ 0 <= points[i].y /\ points[i].y <= height
        /\ \A e \in Events :
             /\ e.note \in NOTE_MIN..NOTE_MAX
             /\ \/ e.status = NOTE_ON /\ e.velocity \in VELOCITY_MIN..VELOCITY_MAX
                \/ e.status = NOTE_OFF /\ e.velocity = 0
        /\ mapRange(0, 0, width, NOTE_MIN, NOTE_MAX) = NOTE_MIN
        /\ mapRange(width, 0, width, NOTE_MIN, NOTE_MAX) = NOTE_MAX
        /\ mapRange(0, 0, height, VELOCITY_MIN, VELOCITY_MAX) = VELOCITY_MIN
        /\ mapRange(height, 0, height, VELOCITY_MIN, VELOCITY_MAX) = VELOCITY_MAX

\* A note-off sent for a particle that has wrapped to x = width.
C5_Witness ==
    /\ variant = "midi"
    /\ \E e \in Events : e.status = NOTE_OFF /\ e.note = NOTE_MAX
    /\ \E i \in Indices : points[i].x = width

\* C6 as stated: a render call that starts with an empty array leaves
\* exactly MIN_ACTIVE_POINTS particles, all of age 0.
C6_ExactlyFloorAgeZero ==
    (frame > 0 /\ startLen = 0) =>
        /\ Len(points) = MIN_ACTIVE_POINTS
        /\ \A i \in Indices : points[i].age = Zero

\* C6 amended: a render call that starts with an empty array leaves
\* MIN_ACTIVE_POINTS particles, or one more when the probabilistic spawn
\* fired, every one of them aged once, to 1/fps.
C6_FloorOrOneMoreAgedOnce ==
    (frame > 0 /\ startLen = 0) =>
        /\ Len(points) \in {MIN_ACTIVE_POINTS, MIN_ACTIVE_POINTS + 1}
        /\ \A i \in Indices : points[i].age = OneOver(fps) /\ points[i].n = 1

\* A render call that started with an empty array and spawned one more.
C6_Witness ==
    frame > 0 /\ startLen = 0 /\ Len(points) = MIN_ACTIVE_POINTS + 1

\* Age increments after which a lifespan of 60 s is reached at 60 fps: the
\* double sum of 3600 additions of 1/60 is still below 60.
RealSteps == POINT_LIFESPAN_MIN * fps + 1

Lifespan60(p) == p.lifespan = Seconds(POINT_LIFESPAN_MIN)

NoteOffFor(id) == \E e \in Events : e.status = NOTE_OFF /\ e.id = id

Within(p, q, thr) ==
    /\ Abs(p[1] - q[1]) <= thr
    /\ Abs(p[2] - q[2]) <= thr
    /\ (p[1] - q[1]) * (p[1] - q[1]) + (p[2] - q[2]) * (p[2] - q[2]) <= thr * thr

LinesOf(i, j) == {k \in 1..Len(lines) : lines[k].i = i /\ lines[k].j = j}

\* C8: the connection pass visits every unordered pair of distinct
\* particles of the array exactly once and nothing else; it strokes a pair
\* if and only if its distance is at most the threshold, which lies in
\* [100, 150] px; a pair at distance 0 is stroked with alpha 0.6 and width
\* 1.5, a pair at the threshold with alpha 0 and width 0.5.
C8_PairsAndLines ==
    frame > 0 =>
        /\ threshold >= 100 * PX /\ threshold <= 150 * PX
        /\ \A k \in 1..Len(examined) :
             /\ 1 <= examined[k][1] /\ examined[k][1] < examined[k][2]
             /\ examined[k][2] <= Len(snap)
        /\ \A i, j \in 1..Len(snap) :
             i < j => Cardinality({k \in 1..Len(examined) : examined[k] = <<i, j>>}) = 1
        /\ \A i, j \in 1..Len(snap) :
             i < j => Cardinality(LinesOf(i, j)) = (IF Within(snap[i], snap[j], threshold) THEN 1 ELSE 0)
        /\ \A k \in 1..Len(lines) :
             /\ lines[k].i < lines[k].j
             /\ snap[lines[k].i] = snap[lines[k].j]
                  => lines[k].alpha = 600 /\ lines[k].lineWidth = 1500
             /\ (Within(snap[lines[k].i], snap[lines[k].j], threshold)
                 /\ ~Within(snap[lines[k].i], snap[lines[k].j], threshold - 1))
                  => lines[k].alpha = 0 /\ lines[k].lineWidth = 500

\* A pair exactly at the threshold, stroked with alpha 0 and width 0.5.
C8_Witness ==
    /\ frame > 0
    /\ \E k \in 1..Len(lines) : lines[k].alpha = 0 /\ lines[k].lineWidth = 500

\* C9: every particle that is in the array is eventually out of it.
C9_EveryParticleRemoved ==
    \A id \in Ids : InArray(id) ~> ~InArray(id)

\* C10: every note-off sent for a particle was preceded by a note-on sent
\* for that particle.
C10_NoteOffAfterNoteOn ==
    \A e \in Events : e.status = NOTE_OFF => onCount[e.id] >= 1

====
